---- MODULE Spec2Model ----
(***************************************************************************)
(* Spam analysis of drop domains: the POST /api/wayback/analyze-spam       *)
(* handler (src/pages/api/wayback/analyze-spam.js) and the bounded-        *)
(* concurrency analysis engine it delegates to                             *)
(* (waybackAdapter.analyzeDomainsForSpam, specified in spec.md sections    *)
(* 4.2, 4.3, 5 and 7; its code is not part of src/).                       *)
(*                                                                         *)
(* Several requests may be in flight at once: the handler is async and     *)
(* suspends at the await of line 55, and domainStatuses (line 6) is a      *)
(* module-level Map shared by all of them.                                 *)
(***************************************************************************)
EXTENDS Integers, Sequences, FiniteSets, TLC

\* ---------------------------------------------------------------- bounds
\* longest domain list of a request when a single request is served
MaxDomains == 4
\* longest domain list of a request when two requests are in flight
MaxDomainsMulti == 1
\* longest domain list sent together with custom stopWords / maxSnapshots
MaxVariedLen == 1

\* the requests the server may receive
Requests == {"A", "B"}

DomainNames == <<"a.example", "b.example", "c.example",
                 "d.example", "e.example", "f.example">>

Min(a, b) == IF a < b THEN a ELSE b
Max(a, b) == IF a > b THEN a ELSE b

\* the list of n domains cycling through the first m names:
\* m = 1 repeats one name, m = 2 alternates two, m >= n has no duplicates
DomainList(n, m) == [i \in 1..n |-> DomainNames[((i - 1) % m) + 1]]

DomainLists(maxLen) ==
    {DomainList(n, m) : n \in 0..maxLen, m \in {1, 2, Min(maxLen, Len(DomainNames))}}

\* ------------------------------------------------------ request payloads
\* JavaScript values of the three body fields, by kind
UndefinedField == [kind |-> "undefined", items |-> <<>>, num |-> 0]
ArrayField(s)  == [kind |-> "array", items |-> s, num |-> 0]
StringField(s) == [kind |-> "string", items |-> s, num |-> 0]
NumberField(n) == [kind |-> "number", items |-> <<>>, num |-> n]

MkBody(d, s, m) == [kind |-> "object", domains |-> d, stopWords |-> s, maxSnapshots |-> m]

\* req.body === null (a JSON body of `null`)
NullBody == [kind |-> "null", domains |-> UndefinedField,
             stopWords |-> UndefinedField, maxSnapshots |-> UndefinedField]

DomainsInputs(maxLen) ==
    {UndefinedField, StringField(<<"a.example">>), StringField(<<>>)}
        \cup {ArrayField(l) : l \in DomainLists(maxLen)}

StopWordsInputs ==
    {UndefinedField, StringField(<<>>), StringField(<<"Casino", "", "pills">>),
     ArrayField(<<>>), ArrayField(<<"viagra", "loans">>), NumberField(7)}

MaxSnapshotsInputs ==
    {UndefinedField, NumberField(0), NumberField(-1), NumberField(2)}

\* bodies with the optional fields left out, one with a negative
\* maxSnapshots, and a null body
PlainBodies(maxLen) ==
    {MkBody(d, UndefinedField, UndefinedField) : d \in DomainsInputs(maxLen)}
        \cup {MkBody(ArrayField(DomainList(1, 1)), UndefinedField, NumberField(-1))}
        \cup {NullBody}

\* short domain lists with every combination of the optional fields
VariedBodies ==
    {MkBody(ArrayField(l), s, m) :
        l \in DomainLists(MaxVariedLen), s \in StopWordsInputs, m \in MaxSnapshotsInputs}

GetRequest ==
    [method |-> "GET", body |-> MkBody(UndefinedField, UndefinedField, UndefinedField)]

HttpRequests(bodies) ==
    {[method |-> "POST", body |-> b] : b \in bodies} \cup {GetRequest}

NoRequest == [method |-> "NONE", body |-> NullBody]

\* JavaScript truthiness of a field value
Falsy(v) ==
    \/ v.kind = "undefined"
    \/ v.kind = "string" /\ v.items = <<>>
    \/ v.kind = "number" /\ v.num = 0

\* --------------------------------------------------------- stop words
\* stopWords.js is imported (line 3) and not part of src/
defaultStopWords == {"casino", "viagra"}

Lower(w) ==
    CASE w = "Casino" -> "casino"
      [] OTHER -> w

\* a delimited string, given here as its raw pieces, becomes its
\* lower-cased non-empty tokens
parseStopWords(pieces) ==
    LET keep == SelectSeq(pieces, LAMBDA w : w # "")
    IN  [i \in 1..Len(keep) |-> Lower(keep[i])]

combineStopWords(custom) ==
    defaultStopWords \cup {custom[i] : i \in 1..Len(custom)}

\* lines 34-41
FinalStopWords(stopWords) ==
    IF Falsy(stopWords) THEN defaultStopWords
    ELSE IF stopWords.kind = "string"
        THEN combineStopWords(parseStopWords(stopWords.items))
    ELSE IF stopWords.kind = "array"
        THEN combineStopWords(stopWords.items)
    ELSE defaultStopWords

\* line 43: maxSnapshots || 10
DefaultSnapshots == 10

SnapshotsLimit(maxSnapshots) ==
    IF Falsy(maxSnapshots) THEN DefaultSnapshots ELSE maxSnapshots.num

\* a ceiling of 4 passed instead of 3
maxConcurrentRaised == 3 + 1

\* line 61: maxConcurrent = 3
maxConcurrent == 3

\* the validation without its length test
DomainsRejectedNoLength(domains) ==
    \/ Falsy(domains)
    \/ domains.kind # "array"

\* line 23: !domains || !Array.isArray(domains) || domains.length === 0
DomainsRejected(domains) ==
    \/ Falsy(domains)
    \/ domains.kind # "array"
    \/ Len(domains.items) = 0

\* ------------------------------------------------------------- logging
LogEntry(type, text, nums, domain) ==
    [type |-> type, text |-> text, nums |-> nums, domain |-> domain]

\* lines 14-18 (the timestamp is left out)
addLog(log, entry) == Append(log, entry)

\* ------------------------------------------------------------ statuses
TerminalStatuses == {"CLEAN", "SUSPICIOUS", "SPAM", "UNAVAILABLE", "NO_SNAPSHOTS"}
InProgress == "PENDING"

DomainStatus(domain, status, evidence) ==
    [domain |-> domain, status |-> status, evidence |-> evidence]

VARIABLES
    request,         \* request[r]: the HTTP request r, NoRequest when r is never sent
    pc,              \* pc[r]: where the handler invocation for r stands
    logs,            \* logs[r]: the handler's logs array (line 13)
    domainStatuses,  \* the module-level Map (line 6), as its set of values
    writer,          \* writer[name]: the request whose callback last set that key
    engineArgs,      \* engineArgs[r]: the arguments of the engine call (lines 55-62)
    slots,           \* slots[r][i]: the engine's classification of domains[i]
    results,         \* results[r]: what the engine returned
    response         \* response[r]: what the handler sent

vars == <<request, pc, logs, domainStatuses, writer, engineArgs, slots, results, response>>

NoArgs == [domains |-> <<>>, stopWords |-> {}, snapshotLimit |-> 0, maxConcurrent |-> 0]
NoSummary == [total |-> 0, clean |-> 0, suspicious |-> 0, spam |-> 0,
              unavailable |-> 0, no_snapshots |-> 0]
NoResponse == [code |-> 0, error |-> "", success |-> FALSE, results |-> <<>>,
               summary |-> NoSummary, logs |-> <<>>]
NoWriter == "none"

Names == {DomainNames[i] : i \in 1..Len(DomainNames)}

InitWith(reqs) ==
    /\ request = reqs
    /\ pc = [r \in Requests |-> IF reqs[r] = NoRequest THEN "absent" ELSE "pending"]
    /\ logs = [r \in Requests |-> <<>>]
    /\ domainStatuses = {}
    /\ writer = [n \in Names |-> NoWriter]
    /\ engineArgs = [r \in Requests |-> NoArgs]
    /\ slots = [r \in Requests |-> <<>>]
    /\ results = [r \in Requests |-> <<>>]
    /\ response = [r \in Requests |-> NoResponse]

\* one request is served
Init ==
    \E q \in HttpRequests(PlainBodies(MaxDomains) \cup VariedBodies) :
        InitWith([r \in Requests |-> IF r = "A" THEN q ELSE NoRequest])

\* one request is served, with at most one domain or with one domain more
\* than the engine has permits, so that a domain has to wait
InitQueue ==
    \E q \in HttpRequests(PlainBodies(1) \cup VariedBodies
                \cup {MkBody(ArrayField(DomainList(maxConcurrent + 1, 2)),
                              UndefinedField, UndefinedField)}) :
        InitWith([r \in Requests |-> IF r = "A" THEN q ELSE NoRequest])

\* two requests are in flight; the first may also carry two distinct domains
InitMulti ==
    \E qa \in HttpRequests(PlainBodies(MaxDomainsMulti)
                \cup {MkBody(ArrayField(DomainList(2, 2)), UndefinedField, UndefinedField)}),
       qb \in HttpRequests(PlainBodies(MaxDomainsMulti)) :
        InitWith([r \in Requests |-> IF r = "A" THEN qa ELSE qb])

\* ------------------------------------------------------------- handler
\* line 51: the Map key of a status is its domain name
KeyOf(domainStatus) == domainStatus.domain

\* lines 50-52: domainStatuses.set(domainStatus.domain, domainStatus)
statusCallback(map, domainStatus) ==
    {e \in map : KeyOf(e) # KeyOf(domainStatus)} \cup {domainStatus}

\* lines 9-11
Handler405(r) ==
    /\ pc[r] = "pending"
    /\ request[r].method # "POST"
    /\ response' = [response EXCEPT ![r] =
            [NoResponse EXCEPT !.code = 405, !.error = "Method not allowed"]]
    /\ pc' = [pc EXCEPT ![r] = "responded"]
    /\ UNCHANGED <<request, logs, domainStatuses, writer, engineArgs, slots, results>>

\* line 21 on a null body: the destructuring throws a TypeError, which the
\* outer catch (lines 89-101) logs and answers with 500
HandlerBodyThrows(r) ==
    /\ pc[r] = "pending"
    /\ request[r].method = "POST"
    /\ request[r].body.kind = "null"
    /\ LET fatal == addLog(addLog(logs[r],
                        LogEntry("error", "Fatal error", <<>>, "")),
                        LogEntry("error", "Stack", <<>>, ""))
       IN  /\ logs' = [logs EXCEPT ![r] = fatal]
           /\ response' = [response EXCEPT ![r] =
                [NoResponse EXCEPT !.code = 500, !.error = "Spam analysis failed",
                                   !.logs = fatal]]
    /\ pc' = [pc EXCEPT ![r] = "responded"]
    /\ UNCHANGED <<request, domainStatuses, writer, engineArgs, slots, results>>

\* lines 23-28: the response carries its own one-entry logs literal;
\* the logs array of line 13 is not touched
Handler400(r) ==
    /\ pc[r] = "pending"
    /\ request[r].method = "POST"
    /\ request[r].body.kind = "object"
    /\ DomainsRejected(request[r].body.domains)
    /\ response' = [response EXCEPT ![r] =
            [NoResponse EXCEPT !.code = 400, !.error = "domains array is required",
                !.logs = <<LogEntry("error", "domains array is required", <<>>, "")>>]]
    /\ pc' = [pc EXCEPT ![r] = "responded"]
    /\ UNCHANGED <<request, logs, domainStatuses, writer, engineArgs, slots, results>>

\* lines 30-62, up to the await: clear the map, settle the stop words and
\* the snapshot limit, log the three start lines, call the engine
HandlerInvoke(r) ==
    /\ pc[r] = "pending"
    /\ request[r].method = "POST"
    /\ request[r].body.kind = "object"
    /\ ~DomainsRejected(request[r].body.domains)
    /\ LET domains == request[r].body.domains.items
           finalStopWords == FinalStopWords(request[r].body.stopWords)
           snapshotsLimit == SnapshotsLimit(request[r].body.maxSnapshots)
       IN  /\ domainStatuses' = {}
           /\ writer' = [n \in Names |-> NoWriter]
           /\ logs' = [logs EXCEPT ![r] =
                addLog(addLog(addLog(@,
                    LogEntry("info", "Starting spam analysis", <<Len(domains)>>, "")),
                    LogEntry("info", "Using stop words", <<Cardinality(finalStopWords)>>, "")),
                    LogEntry("info", "Max snapshots per domain", <<snapshotsLimit>>, ""))]
           /\ engineArgs' = [engineArgs EXCEPT ![r] =
                [domains |-> domains, stopWords |-> finalStopWords,
                 snapshotLimit |-> snapshotsLimit, maxConcurrent |-> maxConcurrent]]
    /\ pc' = [pc EXCEPT ![r] = "invoked"]
    /\ UNCHANGED <<request, slots, results, response>>

\* lines 65-72
CountStatus(res, status) ==
    Cardinality({i \in 1..Len(res) : res[i].status = status})

\* the tally with the no_snapshots filter comparing against a misspelt status
SummaryMisspelt(res) ==
    [total        |-> Len(res),
     clean        |-> CountStatus(res, "CLEAN"),
     suspicious   |-> CountStatus(res, "SUSPICIOUS"),
     spam         |-> CountStatus(res, "SPAM"),
     unavailable  |-> CountStatus(res, "UNAVAILABLE"),
     no_snapshots |-> CountStatus(res, "NO_SNAPSHOT")]

Summary(res) ==
    [total        |-> Len(res),
     clean        |-> CountStatus(res, "CLEAN"),
     suspicious   |-> CountStatus(res, "SUSPICIOUS"),
     spam         |-> CountStatus(res, "SPAM"),
     unavailable  |-> CountStatus(res, "UNAVAILABLE"),
     no_snapshots |-> CountStatus(res, "NO_SNAPSHOTS")]

\* the response built from the status map instead: one entry per key
ResponseResultsByKey(res) ==
    LET first == {i \in 1..Len(res) : \A j \in 1..(i - 1) : KeyOf(res[j]) # KeyOf(res[i])}
        take[n \in 0..Len(res)] ==
            IF n = 0 THEN <<>>
            ELSE IF n \in first THEN Append(take[n - 1], res[n]) ELSE take[n - 1]
    IN  take[Len(res)]

\* line 78: results: results
ResponseResults(res) == res

\* lines 64-81: the engine's promise resolved
HandlerRespond(r) ==
    /\ pc[r] = "returned"
    /\ LET summary == Summary(results[r])
           done == addLog(logs[r], LogEntry("success", "Analysis complete",
                        <<summary.clean, summary.suspicious, summary.spam>>, ""))
       IN  /\ logs' = [logs EXCEPT ![r] = done]
           /\ response' = [response EXCEPT ![r] =
                [NoResponse EXCEPT !.code = 200, !.success = TRUE,
                    !.results = ResponseResults(results[r]), !.summary = summary,
                    !.logs = done]]
    /\ pc' = [pc EXCEPT ![r] = "responded"]
    /\ UNCHANGED <<request, domainStatuses, writer, engineArgs, slots, results>>

\* lines 82-101: the engine's promise rejected; the inner catch logs and
\* rethrows, the outer catch logs again and answers with 500
HandlerCatch(r) ==
    /\ pc[r] = "threw"
    /\ LET inner == addLog(addLog(logs[r],
                        LogEntry("error", "Error", <<>>, "")),
                        LogEntry("error", "Stack", <<>>, ""))
           outer == addLog(addLog(inner,
                        LogEntry("error", "Fatal error", <<>>, "")),
                        LogEntry("error", "Stack", <<>>, ""))
       IN  /\ logs' = [logs EXCEPT ![r] = outer]
           /\ response' = [response EXCEPT ![r] =
                [NoResponse EXCEPT !.code = 500, !.error = "Spam analysis failed",
                                   !.logs = outer]]
    /\ pc' = [pc EXCEPT ![r] = "responded"]
    /\ UNCHANGED <<request, domainStatuses, writer, engineArgs, slots, results>>

\* -------------------------------------------------------------- engine
\* waybackAdapter.analyzeDomainsForSpam(domains, stopWords, snapshotLimit,
\* onLog, onStatus, maxConcurrent): the Batch Scheduler and the Domain
\* Classifier, from spec.md sections 4.2, 4.3, 5 and 7.

\* largest total score a domain's snapshots reach
MaxScore == 2

\* section 4.2 step 5: a named, overridable threshold; 2 lets a score fall
\* strictly between 0 and the threshold
SUSPICIOUS_THRESHOLD == 2

Verdict(totalScore) ==
    IF totalScore = 0 THEN "CLEAN"
    ELSE IF totalScore < SUSPICIOUS_THRESHOLD THEN "SUSPICIOUS"
    ELSE "SPAM"

QueuedSlot(domain) ==
    [phase |-> "queued", ds |-> DomainStatus(domain, "QUEUED", "none"), cause |-> "none"]

ActivePhases == {"fetching", "analyzing"}

Active(r) == {i \in 1..Len(slots[r]) : slots[r][i].phase \in ActivePhases}
Queued(r) == {i \in 1..Len(slots[r]) : slots[r][i].phase = "queued"}

\* the head of the queue: input order is queue order
NextQueued(r) == CHOOSE i \in Queued(r) : \A j \in Queued(r) : i <= j

\* sections 4.3 and 7: an empty list, maxConcurrent < 1 or a non-positive
\* limit is rejected before any processing begins
Preflight(args) ==
    /\ Len(args.domains) > 0
    /\ args.maxConcurrent >= 1
    /\ args.snapshotLimit > 0

\* onLog as the handler passes it (line 59): every engine line is 'info'
onLog(log, text, nums, domain) == addLog(log, LogEntry("info", text, nums, domain))

\* onStatus as the handler passes it (line 60)
onStatus(r, domainStatus) ==
    /\ domainStatuses' = statusCallback(domainStatuses, domainStatus)
    /\ writer' = [writer EXCEPT ![KeyOf(domainStatus)] = r]

EngineStart(r) ==
    /\ pc[r] = "invoked"
    /\ Preflight(engineArgs[r])
    /\ slots' = [slots EXCEPT ![r] =
            [i \in 1..Len(engineArgs[r].domains) |-> QueuedSlot(engineArgs[r].domains[i])]]
    /\ logs' = [logs EXCEPT ![r] = onLog(@, "Batch start",
            <<Len(engineArgs[r].domains), Cardinality(engineArgs[r].stopWords),
              engineArgs[r].snapshotLimit>>, "")]
    /\ pc' = [pc EXCEPT ![r] = "running"]
    /\ UNCHANGED <<request, domainStatuses, writer, engineArgs, results, response>>

\* the pre-flight validation error escapes to the caller
EngineReject(r) ==
    /\ pc[r] = "invoked"
    /\ ~Preflight(engineArgs[r])
    /\ pc' = [pc EXCEPT ![r] = "threw"]
    /\ UNCHANGED <<request, logs, domainStatuses, writer, engineArgs, slots, results,
                   response>>

\* a finished classification keeps its permit
CanDispatchNoRelease(r) ==
    /\ Queued(r) # {}
    /\ Cardinality({i \in 1..Len(slots[r]) : slots[r][i].phase # "queued"})
            < engineArgs[r].maxConcurrent

\* a permit is free and a domain is queued
CanDispatch(r) ==
    /\ Queued(r) # {}
    /\ Cardinality(Active(r)) < engineArgs[r].maxConcurrent

\* section 4.2 step 1: the worker takes the head of the queue, emits the
\* in-progress marker and starts the fetch
Dispatch(r) ==
    /\ pc[r] = "running"
    /\ CanDispatch(r)
    /\ LET i == NextQueued(r)
           ds == DomainStatus(slots[r][i].ds.domain, InProgress, "none")
       IN  /\ slots' = [slots EXCEPT ![r][i] = [phase |-> "fetching", ds |-> ds,
                                                 cause |-> "none"]]
           /\ onStatus(r, ds)
    /\ UNCHANGED <<request, pc, logs, engineArgs, results, response>>

\* section 4.3: the terminal statuses in input order
Collect(sl) == [i \in 1..Len(sl) |-> sl[i].ds]

\* section 4.3: once every domain is done the scheduler collects the
\* results, logs the tally and resolves; until then it only keeps the log
Settle(r, sl, log) ==
    IF \A i \in 1..Len(sl) : sl[i].phase = "done"
    THEN /\ results' = [results EXCEPT ![r] = Collect(sl)]
         /\ LET tally == Summary(Collect(sl))
            IN  logs' = [logs EXCEPT ![r] = onLog(log, "Batch complete",
                    <<tally.total, tally.clean, tally.suspicious, tally.spam,
                      tally.unavailable, tally.no_snapshots>>, "")]
         /\ pc' = [pc EXCEPT ![r] = "returned"]
    ELSE /\ logs' = [logs EXCEPT ![r] = log]
         /\ UNCHANGED <<results, pc>>

\* a classification ends: the slot is frozen with its terminal status,
\* which is emitted, and the permit is released
Finish(r, i, status, evidence, cause, log) ==
    LET ds == DomainStatus(slots[r][i].ds.domain, status, evidence)
        sl == [slots[r] EXCEPT ![i] = [phase |-> "done", ds |-> ds, cause |-> cause]]
    IN  /\ slots' = [slots EXCEPT ![r] = sl]
        /\ onStatus(r, ds)
        /\ Settle(r, sl, log)

\* section 4.2 step 2, failure: UNAVAILABLE, no evidence; logged
FetchFail(r, i) ==
    /\ pc[r] = "running"
    /\ i \in 1..Len(slots[r])
    /\ slots[r][i].phase = "fetching"
    /\ Finish(r, i, "UNAVAILABLE", "none", "fetch",
              onLog(logs[r], "Domain unavailable", <<>>, slots[r][i].ds.domain))
    /\ UNCHANGED <<request, engineArgs, response>>

\* section 4.2 step 2, zero records
FetchEmpty(r, i) ==
    /\ pc[r] = "running"
    /\ i \in 1..Len(slots[r])
    /\ slots[r][i].phase = "fetching"
    /\ Finish(r, i, "NO_SNAPSHOTS", "none", "none", logs[r])
    /\ UNCHANGED <<request, engineArgs, response>>

\* section 4.2 step 2, records returned: on to the analysis
FetchOk(r, i) ==
    /\ pc[r] = "running"
    /\ i \in 1..Len(slots[r])
    /\ slots[r][i].phase = "fetching"
    /\ slots' = [slots EXCEPT ![r][i].phase = "analyzing"]
    /\ UNCHANGED <<request, pc, logs, domainStatuses, writer, engineArgs, results, response>>

\* section 4.2 steps 3-6: the snapshots' total score decides the verdict
Classify(r, i, totalScore) ==
    /\ pc[r] = "running"
    /\ i \in 1..Len(slots[r])
    /\ slots[r][i].phase = "analyzing"
    /\ Finish(r, i, Verdict(totalScore), IF totalScore = 0 THEN "none" ELSE "terms",
              "none", logs[r])
    /\ UNCHANGED <<request, engineArgs, response>>

\* the unexpected failure is not caught at the worker boundary: it rejects
\* the engine's promise
InternalErrorEscapes(r, i) ==
    /\ pc[r] = "running"
    /\ i \in 1..Len(slots[r])
    /\ slots[r][i].phase \in ActivePhases
    /\ slots' = [slots EXCEPT ![r][i].cause = "internal"]
    /\ pc' = [pc EXCEPT ![r] = "threw"]
    /\ UNCHANGED <<request, logs, domainStatuses, writer, engineArgs, results, response>>

\* sections 4.3 and 7: an unexpected failure inside one classification is
\* caught at the worker boundary, becomes UNAVAILABLE with the failure as
\* evidence, and is logged
InternalError(r, i) ==
    /\ pc[r] = "running"
    /\ i \in 1..Len(slots[r])
    /\ slots[r][i].phase \in ActivePhases
    /\ Finish(r, i, "UNAVAILABLE", "error", "internal",
              onLog(logs[r], "Domain failed", <<>>, slots[r][i].ds.domain))
    /\ UNCHANGED <<request, engineArgs, response>>

\* --------------------------------------------------------------- system
HandlerStep(r) ==
    \/ Handler405(r)
    \/ HandlerBodyThrows(r)
    \/ Handler400(r)
    \/ HandlerInvoke(r)
    \/ HandlerRespond(r)
    \/ HandlerCatch(r)

SlotStep(r, i) ==
    \/ FetchFail(r, i)
    \/ FetchEmpty(r, i)
    \/ FetchOk(r, i)
    \/ \E totalScore \in 0..MaxScore : Classify(r, i, totalScore)
    \/ InternalError(r, i)

EngineStep(r) ==
    \/ EngineStart(r)
    \/ EngineReject(r)
    \/ Dispatch(r)

\* the longest domain list any request carries
MaxSlots == Max(MaxDomains, MaxDomainsMulti)

Next ==
    \E r \in Requests :
        \/ HandlerStep(r)
        \/ EngineStep(r)
        \/ \E i \in 1..MaxSlots : SlotStep(r, i)

Spec == Init /\ [][Next]_vars

SpecMulti == InitMulti /\ [][Next]_vars

\* The event loop runs every continuation that is ready, and every fetch
\* returns or fails: the system does not stop while a step is possible.
\* (Fairness of each handler, engine and classification step on its own
\* implies this.)
Fairness == WF_vars(Next)

SpecFair == InitQueue /\ [][Next]_vars /\ Fairness

\* =============================================================== claims
Domains(r) == request[r].body.domains.items

Accepted(r) ==
    /\ request[r].method = "POST"
    /\ request[r].body.kind = "object"
    /\ ~DomainsRejected(request[r].body.domains)

Succeeded(r) == pc[r] = "responded" /\ response[r].success

HasDuplicates(seq) == \E i, j \in 1..Len(seq) : i < j /\ seq[i] = seq[j]

\* C1: the summary of a successful batch counts every input domain exactly
\* once: clean + suspicious + spam + unavailable + no_snapshots = total =
\* the number of input domains.
C1_SummaryCountsEveryDomainOnce ==
    \A r \in Requests :
        Succeeded(r) =>
            LET s == response[r].summary
            IN  /\ s.clean + s.suspicious + s.spam + s.unavailable + s.no_snapshots = s.total
                /\ s.total = Len(Domains(r))

\* a batch of several domains, every one of which failed
C1_Witness ==
    \E r \in Requests :
        /\ Succeeded(r)
        /\ Len(Domains(r)) >= 3
        /\ response[r].summary.unavailable = Len(Domains(r))

\* C2: the results of a successful batch have the length of the input and
\* results[i].domain = domains[i] at every index, duplicates included,
\* whatever the completion order.
C2_ResultsInInputOrder ==
    \A r \in Requests :
        Succeeded(r) =>
            /\ Len(response[r].results) = Len(Domains(r))
            /\ \A i \in 1..Len(Domains(r)) : response[r].results[i].domain = Domains(r)[i]

\* a list with duplicates whose second domain failed before its first
C2_Witness ==
    \E r \in Requests :
        /\ Succeeded(r)
        /\ HasDuplicates(Domains(r))
        /\ Domains(r)[1] # Domains(r)[2]
        /\ \E j, k \in 1..Len(logs[r]) :
            /\ j < k
            /\ logs[r][j].domain = Domains(r)[2]
            /\ logs[r][k].domain = Domains(r)[1]
            /\ \A l \in 1..(k - 1) : logs[r][l].domain # Domains(r)[1]

\* C3: while a batch runs, the classifications that have started their
\* fetch and not yet completed number at most maxConcurrent, which is 3.
C3_ConcurrencyBound ==
    \A r \in Requests :
        /\ Cardinality(Active(r)) <= 3
        /\ pc[r] = "running" => Cardinality(Active(r)) <= engineArgs[r].maxConcurrent

\* the ceiling binds: three classifications active and a domain waiting
C3_Witness ==
    \E r \in Requests :
        /\ pc[r] = "running"
        /\ Cardinality(Active(r)) = 3
        /\ Queued(r) # {}

\* C5: a zero or negative maxSnapshots is rejected before any processing:
\* nothing is logged, the engine is not called, and so the engine is never
\* called with a limit that is not positive.
C5_NonPositiveLimitRejected ==
    \A r \in Requests :
        /\ engineArgs[r] # NoArgs => engineArgs[r].snapshotLimit > 0
        /\ ( /\ Accepted(r)
             /\ request[r].body.maxSnapshots.kind = "number"
             /\ request[r].body.maxSnapshots.num <= 0
             /\ pc[r] # "pending" )
            => (engineArgs[r] = NoArgs /\ logs[r] = <<>>)

Failed(r) == {i \in 1..Len(slots[r]) : slots[r][i].cause # "none"}

\* C6: a failure while classifying one domain (fetch failure or unexpected
\* error) does not escape the engine: that domain ends UNAVAILABLE and the
\* batch answers 200 with a terminal status for every input domain.
C6_DomainFailureAbsorbed ==
    \A r \in Requests :
        Failed(r) # {} =>
            /\ pc[r] # "threw"
            /\ \A i \in Failed(r) :
                slots[r][i].phase = "done" /\ slots[r][i].ds.status = "UNAVAILABLE"
            /\ pc[r] = "responded" =>
                /\ response[r].code = 200
                /\ Len(response[r].results) = Len(Domains(r))
                /\ \A i \in 1..Len(Domains(r)) :
                    /\ response[r].results[i].status \in TerminalStatuses
                    /\ i \in Failed(r) => response[r].results[i].status = "UNAVAILABLE"

\* a batch with a failed fetch, an unexpected error and a clean domain
C6_Witness ==
    \E r \in Requests :
        /\ Succeeded(r)
        /\ \E i, j, k \in 1..Len(slots[r]) :
            /\ slots[r][i].cause = "fetch"
            /\ slots[r][j].cause = "internal"
            /\ response[r].results[k].status = "CLEAN"

\* C9: no two classifications of a batch that are active at once have
\* written status entries under the same Map key, duplicates included.
C9_OneWriterPerKey ==
    \A r \in Requests :
        \A i, j \in Active(r) :
            i # j => KeyOf(slots[r][i].ds) # KeyOf(slots[r][j].ds)

\* the domains input as the claim words it: missing, not an array, or empty
InvalidDomains(r) ==
    /\ request[r].method = "POST"
    /\ request[r].body.kind = "object"
    /\ (request[r].body.domains.kind # "array" \/ Len(request[r].body.domains.items) = 0)

C4_NothingProcessed ==
    \A r \in Requests :
        (InvalidDomains(r) /\ pc[r] # "pending") =>
            /\ pc[r] = "responded"
            /\ logs[r] = <<>>
            /\ engineArgs[r] = NoArgs
            /\ slots[r] = <<>>
            /\ response[r].code = 400
            /\ response[r].error = "domains array is required"
            /\ response[r].results = <<>>

C4_MapUntouched ==
    \A r \in Requests :
        (InvalidDomains(r) /\ pc[r] = "pending" /\ pc'[r] # "pending") =>
            (domainStatuses' = domainStatuses /\ writer' = writer)

BatchDomains(r) == {engineArgs[r].domains[i] : i \in 1..Len(engineArgs[r].domains)}

C7_Step ==
    \A r \in Requests :
        /\ \A i \in 1..Len(slots[r]) :
            /\ (slots[r][i].phase = "queued" /\ slots'[r][i].phase # "queued")
                => (slots'[r][i].ds.status = InProgress /\ slots'[r][i].ds \in domainStatuses')
            /\ (slots[r][i].phase # "done" /\ slots'[r][i].phase = "done")
                => (slots[r][i].ds.status = InProgress /\ slots'[r][i].ds \in domainStatuses')
            /\ slots[r][i].phase = "done" => slots'[r][i] = slots[r][i]
        /\ (pc[r] = "running" /\ pc'[r] = "returned") =>
            \A e \in domainStatuses' :
                KeyOf(e) \in BatchDomains(r) => e.status \in TerminalStatuses

\* C7: for each domain processed the callback gets the in-progress marker
\* before the terminal status and nothing after it, so that when the batch
\* returns the status stored for each of its domains is a terminal one.
C7_TerminalStoredAtReturn == [][C7_Step]_vars

\* C10: while a request's batch runs and when it responds, the status map
\* holds a status for every domain the request has started and none
\* written for another request.
C10_RequestsIsolated ==
    \A r \in Requests :
        pc[r] \in {"running", "returned"} =>
            /\ \A i \in 1..Len(slots[r]) :
                slots[r][i].phase # "queued" =>
                    \E e \in domainStatuses : KeyOf(e) = KeyOf(slots[r][i].ds)
            /\ \A n \in Names : writer[n] \in {NoWriter, r}

AllDone(r) == \A i \in 1..Len(slots[r]) : slots[r][i].phase = "done"

C8_DispatchInOrder ==
    \A r \in Requests :
        \A i \in 1..Len(slots[r]) :
            (slots[r][i].phase = "queued" /\ slots'[r][i].phase # "queued") =>
                /\ \A j \in 1..(i - 1) : slots[r][j].phase # "queued"
                /\ Cardinality(Active(r)) < engineArgs[r].maxConcurrent

C8_Progress ==
    \A r \in Requests : (pc[r] = "running") ~> (Succeeded(r) /\ AllDone(r))

\* C8: provided every fetch returns or fails, a free permit and a waiting
\* domain lead to the dispatch of the head of the queue, every domain
\* reaches a terminal status and the batch returns.
C8_EveryDomainFinishes ==
    C8_Progress /\ [][C8_DispatchInOrder]_vars

\* a finished batch that was longer than the ceiling, so domains waited
C8_Witness ==
    \E r \in Requests :
        /\ Succeeded(r)
        /\ AllDone(r)
        /\ Len(slots[r]) > engineArgs[r].maxConcurrent

====
